---- MODULE Spec2Model ----
(***************************************************************************)
(* Model of pynexml/characters.py: discrete character-state alphabets.     *)
(*                                                                         *)
(* Objects live in `heap` (object number -> attribute record); a           *)
(* DiscreteStateAlphabetSet is the set of object numbers it holds.  An     *)
(* optional Python value (None or x) is the set {} or {x}, except for the  *)
(* string attributes, where None is the string None below.                 *)
(***************************************************************************)
EXTENDS Integers, Sequences, FiniteSets, TLC

VARIABLES
    heap,                 \* object number -> attributes of a DiscreteStateAlphabetElement
    alphabet,             \* the states a DiscreteStateAlphabetSet holds
    call,                 \* the last call and its outcome
    stack,                \* activation records of _get_fundamental_states
    dna_pc,               \* next line of DnaStateAlphabetSet.__init__
    has_append,           \* whether the alphabet class has an append method
    state_alphabet_sets,  \* CharactersBlock.state_alphabet_sets
    characters,           \* CharactersBlock.characters
    rows                  \* the CharactersBlock dict: taxon -> row of states

vars == <<heap, alphabet, call, stack, dna_pc, has_append,
          state_alphabet_sets, characters, rows>>
evalVars == <<stack>>
dnaVars == <<dna_pc, has_append>>
blockVars == <<state_alphabet_sets, characters, rows>>

-----------------------------------------------------------------------------
(* Bounds and input domains *)

MaxElems == 3

\* the interpreter's recursion limit, scaled down to the model; always above MaxElems
RecursionLimit == 4

\* the most alphabet sets and columns a block is given
MaxAlphabetSets == 2
MaxColumns == 1

\* Python's None, for the attributes elem_id, symbol and token
None == "<None>"

SINGLE_STATE == 0
AMBIGUOUS_STATE == 1
POLYMORPHIC_STATE == 2

\* Constructor arguments (elem_id, symbol, token, multistate) the model draws from
ElementArgList ==
    << [elem_id |-> "s1", symbol |-> "A",  token |-> "a",  multistate |-> SINGLE_STATE],
       [elem_id |-> "s2", symbol |-> "C",  token |-> None, multistate |-> AMBIGUOUS_STATE],
       [elem_id |-> "s1", symbol |-> None, token |-> "",   multistate |-> POLYMORPHIC_STATE] >>

Range(s) == {s[i] : i \in 1..Len(s)}

ElementArgs == Range(ElementArgList)

\* the lists over S of length at most n
ListsUpTo(S, n) == UNION {[1..k -> S] : k \in 0..n}

\* the strictly ascending lists over a set of object numbers, at most two long
AscLists(S) ==
    {<<>>} \cup {<<a>> : a \in S}
           \cup {<<p[1], p[2]>> : p \in {q \in S \X S : q[1] < q[2]}}

TheOne(opt) == CHOOSE x \in opt : TRUE

-----------------------------------------------------------------------------
(* DiscreteStateAlphabetElement *)

\* __init__: stores its arguments; member_states is None ({}) or a list ({list})
NewElementRecord(args, member_states) ==
    [elem_id |-> args.elem_id, symbol |-> args.symbol, token |-> args.token,
     multistate |-> args.multistate, member_states |-> member_states]

\* Python truth value of a symbol or token: None and "" are false
Truthy(v) == v # None /\ v # ""

\* a faulty variant: the member states themselves, not the states they resolve to
MutantMembersOnly(h, self) ==
    IF h[self].member_states = {} THEN {self} ELSE Range(TheOne(h[self].member_states))

RECURSIVE _get_fundamental_states(_, _)
_get_fundamental_states(h, self) ==
    IF h[self].member_states = {}
    THEN {self}
    ELSE LET ms == TheOne(h[self].member_states)
         IN  UNION {_get_fundamental_states(h, ms[i]) : i \in 1..Len(ms)}

_get_fundamental_ids(h, self) ==
    {h[state].elem_id : state \in _get_fundamental_states(h, self)}

\* a faulty variant: the comprehension without its `if state.symbol`
MutantSymbolsUnfiltered(h, self) ==
    {h[state].symbol : state \in _get_fundamental_states(h, self)}

_get_fundamental_symbols(h, self) ==
    {h[state].symbol : state \in {s \in _get_fundamental_states(h, self) : Truthy(h[s].symbol)}}

_get_fundamental_tokens(h, self) ==
    {h[state].token : state \in {s \in _get_fundamental_states(h, self) : Truthy(h[s].token)}}

\* getattr(state, attr_name) for the attribute names the lookups use
getattr(h, state, attr_name) ==
    CASE attr_name = "elem_id" -> h[state].elem_id
      [] attr_name = "symbol" -> h[state].symbol
      [] attr_name = "token" -> h[state].token
      [] attr_name = "fundamental_ids" -> _get_fundamental_ids(h, state)
      [] attr_name = "fundamental_symbols" -> _get_fundamental_symbols(h, state)
      [] attr_name = "fundamental_tokens" -> _get_fundamental_tokens(h, state)


-----------------------------------------------------------------------------
(* _get_fundamental_states, one activation record at a time *)

\* a faulty variant: a cycle guard, which skips a member that is being resolved already
MutantVisitUnlessActive(h, stk, self) ==
    SelectSeq(TheOne(h[self].member_states),
              LAMBDA m : ~ \E k \in 1..Len(stk) : stk[k].self = m)

\* `for state in self.member_states`: the members the loop visits, in order
members_to_visit(h, stk, self) == TheOne(h[self].member_states)

\* a new activation: `states = set()`, the loop at its first member
Frame(self) == [self |-> self, states |-> {}, i |-> 1]

-----------------------------------------------------------------------------
(* DiscreteStateAlphabetSet *)

\* get_state: `for state in self: if getattr(state, attr_name) == value: return
\* state`, else raise.  The alphabet is a Python set, whose iteration order is
\* unspecified, so the state returned is any one of the states that match: the
\* operator gives the set of possible return values, empty when the call raises.
get_state(h, self, attr_name, value) ==
    {state \in self : getattr(h, state, attr_name) = value}

\* a faulty variant: a value that matches no state is skipped instead of raising
MutantGetStatesSkips(h, self, elem_ids, symbols, tokens) ==
    IF elem_ids = {} /\ symbols = {} /\ tokens = {}
    THEN {[status |-> "InvalidArgument", at |-> 0, value |-> <<>>]}
    ELSE LET attr_name == IF elem_ids # {} THEN "elem_id"
                          ELSE IF symbols # {} THEN "symbol" ELSE "token"
             values == IF elem_ids # {} THEN TheOne(elem_ids)
                       ELSE IF symbols # {} THEN TheOne(symbols) ELSE TheOne(tokens)
             found == SelectSeq(values, LAMBDA v : get_state(h, self, attr_name, v) # {})
         IN  {[status |-> "ok", at |-> 0,
               value |-> [i \in 1..Len(found) |-> pick[found[i]]]] :
              pick \in {p \in [Range(found) -> self] :
                          \A v \in Range(found) : p[v] \in get_state(h, self, attr_name, v)}}

\* get_states(elem_ids, symbols, tokens): the possible outcomes of the call.
\* One iteration order serves the whole call, so equal values get the same state.
get_states(h, self, elem_ids, symbols, tokens) ==
    IF elem_ids = {} /\ symbols = {} /\ tokens = {}
    THEN {[status |-> "InvalidArgument", at |-> 0, value |-> <<>>]}
    ELSE LET attr_name == IF elem_ids # {} THEN "elem_id"
                          ELSE IF symbols # {} THEN "symbol" ELSE "token"
             values == IF elem_ids # {} THEN TheOne(elem_ids)
                       ELSE IF symbols # {} THEN TheOne(symbols) ELSE TheOne(tokens)
             missing == {i \in 1..Len(values) : get_state(h, self, attr_name, values[i]) = {}}
         IN  IF missing # {}
             THEN {[status |-> "NotFound",
                    at |-> CHOOSE i \in missing : \A j \in missing : i <= j,
                    value |-> <<>>]}
             ELSE {[status |-> "ok", at |-> 0,
                    value |-> [i \in 1..Len(values) |-> pick[values[i]]]] :
                   pick \in {p \in [Range(values) -> self] :
                               \A v \in Range(values) : p[v] \in get_state(h, self, attr_name, v)}}

\* the conversion of match_state's argument to a set: a list becomes set(values),
\* a str the set of its characters, a set is compared as it is.  An argument is
\* [kind, val]; val lists the values of a list, the characters of a str, the
\* elements of a set
AsSet(values) ==
    CASE values.kind = "list" -> Range(values.val)
      [] values.kind = "str" -> Range(values.val)
      [] values.kind = "set" -> Range(values.val)

\* a faulty variant: a state matches when the requested values are among its fundamental ones
MutantMatchSubset(h, self, elem_ids, symbols, tokens) ==
    IF elem_ids = {} /\ symbols = {} /\ tokens = {}
    THEN {[status |-> "InvalidArgument", at |-> 0, value |-> {}]}
    ELSE LET attr_name == IF elem_ids # {} THEN "fundamental_ids"
                          ELSE IF symbols # {} THEN "fundamental_symbols"
                          ELSE "fundamental_tokens"
             values == AsSet(IF elem_ids # {} THEN TheOne(elem_ids)
                             ELSE IF symbols # {} THEN TheOne(symbols) ELSE TheOne(tokens))
             matches == {state \in self : values \subseteq getattr(h, state, attr_name)}
         IN  IF matches = {}
             THEN {[status |-> "ok", at |-> 0, value |-> {}]}
             ELSE {[status |-> "ok", at |-> 0, value |-> {state}] : state \in matches}

\* a faulty variant: more than one selector is refused
MutantMatchOneSelector(h, self, elem_ids, symbols, tokens) ==
    IF Cardinality({x \in {<<1, elem_ids>>, <<2, symbols>>, <<3, tokens>>} : x[2] # {}}) # 1
    THEN {[status |-> "InvalidArgument", at |-> 0, value |-> {}]}
    ELSE LET attr_name == IF elem_ids # {} THEN "fundamental_ids"
                          ELSE IF symbols # {} THEN "fundamental_symbols"
                          ELSE "fundamental_tokens"
             values == AsSet(IF elem_ids # {} THEN TheOne(elem_ids)
                             ELSE IF symbols # {} THEN TheOne(symbols) ELSE TheOne(tokens))
             matches == get_state(h, self, attr_name, values)
         IN  IF matches = {}
             THEN {[status |-> "ok", at |-> 0, value |-> {}]}
             ELSE {[status |-> "ok", at |-> 0, value |-> {state}] : state \in matches}

\* match_state(elem_ids, symbols, tokens): the possible outcomes of the call;
\* value is {} for None and {state} for a state
match_state(h, self, elem_ids, symbols, tokens) ==
    IF elem_ids = {} /\ symbols = {} /\ tokens = {}
    THEN {[status |-> "InvalidArgument", at |-> 0, value |-> {}]}
    ELSE LET attr_name == IF elem_ids # {} THEN "fundamental_ids"
                          ELSE IF symbols # {} THEN "fundamental_symbols"
                          ELSE "fundamental_tokens"
             values == AsSet(IF elem_ids # {} THEN TheOne(elem_ids)
                             ELSE IF symbols # {} THEN TheOne(symbols) ELSE TheOne(tokens))
             matches == get_state(h, self, attr_name, values)
         IN  IF matches = {}
             THEN {[status |-> "ok", at |-> 0, value |-> {}]}
             ELSE {[status |-> "ok", at |-> 0, value |-> {state}] : state \in matches}

\* a faulty variant: a state whose elem_id is in the alphabet already is refused
MutantAddUnique(h, self, state) ==
    IF \E other \in self : h[other].elem_id = h[state].elem_id
    THEN [status |-> "DuplicateKey", contents |-> self]
    ELSE [status |-> "ok", contents |-> self \cup {state}]

\* set.add(state): the class inherits add from the built-in set and defines no
\* check of its own; states are compared by object identity
add(h, self, state) == [status |-> "ok", contents |-> self \cup {state}]

-----------------------------------------------------------------------------
(* Lookup arguments the model draws from *)

kList(s) == {[kind |-> "list", val |-> s]}
kStr(s) == {[kind |-> "str", val |-> s]}
kSet(s) == {[kind |-> "set", val |-> s]}

GetStatesArgs ==
    {<<{}, {s}, {}>> : s \in ListsUpTo({"A", "Z"}, 2)}
    \cup {<<{s}, {}, {}>> : s \in {<<"s1">>, <<"s9", "s1">>}}
    \cup {<<{}, {}, {s}>> : s \in {<<"a">>, <<None>>}}
    \cup { <<{}, {}, {}>>,
           <<{<<"s2">>}, {<<"A">>}, {}>>,
           <<{}, {<<"C">>}, {<<"a">>}>>,
           <<{<<"s9">>}, {<<"A">>}, {<<"a">>}>> }

MatchStateArgs ==
    {<<{}, kSet(s), {}>> : s \in {<<>>, <<"A">>, <<"C">>, <<"A", "C">>}}
    \cup {<<{}, {x}, {}>> : x \in kStr(<<"A", "C">>) \cup kStr(<<"C", "C">>) \cup kList(<<"C", "A", "C">>)}
    \cup {<<{x}, {}, {}>> : x \in kSet(<<"s1">>) \cup kList(<<"s1", "s2">>)}
    \cup {<<{}, {}, {x}>> : x \in kSet(<<"a">>) \cup kSet(<<>>)}
    \cup { <<{}, {}, {}>>,
           <<kSet(<<"s2">>), kSet(<<"A">>), {}>>,
           <<{}, kSet(<<"C">>), kSet(<<"a">>)>>,
           <<kSet(<<"s9">>), kSet(<<"A">>), kSet(<<"a">>)>> }


-----------------------------------------------------------------------------
(* DnaStateAlphabetSet *)

Composite(symbol, members) ==
    [symbol |-> symbol, multistate |-> AMBIGUOUS_STATE, members |-> {members}]
Single(symbol) ==
    [symbol |-> symbol, multistate |-> SINGLE_STATE, members |-> {}]

\* a faulty variant: the line for B repeats the member list of the line for V
MutantDnaRecipeCopiedLine ==
    << Single("A"), Single("C"), Single("G"), Single("T"), Single("-"),
       Composite("?", <<"A", "C", "G", "T", "-">>),
       Composite("N", <<"A", "C", "G", "T">>),
       Composite("M", <<"A", "C">>),
       Composite("R", <<"A", "G">>),
       Composite("W", <<"A", "T">>),
       Composite("S", <<"C", "G">>),
       Composite("Y", <<"C", "T">>),
       Composite("K", <<"G", "T">>),
       Composite("V", <<"A", "C", "G">>),
       Composite("H", <<"A", "C", "T">>),
       Composite("D", <<"A", "G", "T">>),
       Composite("B", <<"A", "C", "G">>) >>

\* the lines of __init__, in order: the symbol of the state appended and the
\* symbols its member states are looked up by
DnaRecipe ==
    << Single("A"), Single("C"), Single("G"), Single("T"), Single("-"),
       Composite("?", <<"A", "C", "G", "T", "-">>),
       Composite("N", <<"A", "C", "G", "T">>),
       Composite("M", <<"A", "C">>),
       Composite("R", <<"A", "G">>),
       Composite("W", <<"A", "T">>),
       Composite("S", <<"C", "G">>),
       Composite("Y", <<"C", "T">>),
       Composite("K", <<"G", "T">>),
       Composite("V", <<"A", "C", "G">>),
       Composite("H", <<"A", "C", "T">>),
       Composite("D", <<"A", "G", "T">>),
       Composite("B", <<"C", "G", "T">>) >>

DnaDone == Len(DnaRecipe) + 1

\* an append method of the base class IdTagged, were there one: it inserts the state
inherited_append(self, state) == [status |-> "ok", contents |-> self \cup {state}]

\* self.append(state).  The class defines no append and the built-in set has
\* none, so the call raises AttributeError unless the base class IdTagged, which
\* comes first in the method resolution order, supplies the method (has_append).
append(has, self, state) ==
    IF has
    THEN inherited_append(self, state)
    ELSE [status |-> "AttributeError", contents |-> self]

\* one line of DnaStateAlphabetSet.__init__:
\*   self.append(DiscreteStateAlphabetElement(symbol=..., member_states=self.get_states(symbols=[...])))
\* Python looks self.append up before it evaluates the argument.
DnaInitLine(line, h, self, has) ==
    LET e == DnaRecipe[line]
        state == Len(h) + 1
    IN  IF append(has, self, state).status # "ok"
        THEN {[status |-> append(has, self, state).status, heap |-> h, contents |-> self]}
        ELSE IF e.members = {}
        THEN {[status |-> "ok",
               heap |-> Append(h, [elem_id |-> None, symbol |-> e.symbol, token |-> None,
                                   multistate |-> e.multistate, member_states |-> {}]),
               contents |-> append(has, self, state).contents]}
        ELSE {IF r.status # "ok"
              THEN [status |-> r.status, heap |-> h, contents |-> self]
              ELSE [status |-> "ok",
                    heap |-> Append(h, [elem_id |-> None, symbol |-> e.symbol, token |-> None,
                                        multistate |-> e.multistate,
                                        member_states |-> {r.value}]),
                    contents |-> append(has, self, state).contents] :
              r \in get_states(h, self, {}, e.members, {})}

SetToSeq(S) == CHOOSE f \in [1..Cardinality(S) -> S] : Range(f) = S

\* the symbol sets and strings match_state is asked for
DnaMatchArgs ==
    {<<{}, kSet(SetToSeq(S)), {}>> : S \in SUBSET {"A", "C", "G", "T", "-"}}
    \cup {<<{}, kSet(SetToSeq(S \cup {"N"})), {}>> : S \in SUBSET {"A", "C"}}
    \cup {<<{}, {x}, {}>> : x \in kStr(<<"A", "G">>) \cup kStr(<<"A", "C", "G", "T", "-">>)
                                 \cup kStr(<<"G", "A", "G">>) \cup kList(<<"T", "C">>)}


-----------------------------------------------------------------------------
(* CharactersBlock: a dict from taxon to row, with the lists state_alphabet_sets
   and characters *)

\* self.state_alphabet_sets.append(alphabet_set)
add_alphabet_set(sets, alphabet_set) == Append(sets, alphabet_set)

\* self.characters.append(Character(state_alphabet_set=alphabet_set))
add_column(chars, alphabet_set) == Append(chars, [state_alphabet_set |-> alphabet_set])

\* a faulty variant: a row holding a state of no registered alphabet set is refused
MutantSetRowChecked(sets, block, taxon, states) ==
    IF \E i \in 1..Len(states) : states[i] \notin UNION Range(sets)
    THEN [status |-> "InvalidArgument", block |-> block]
    ELSE [status |-> "ok",
          block |-> [t \in DOMAIN block \cup {taxon} |-> IF t = taxon THEN states ELSE block[t]]]

\* block[taxon] = states: the dict's own item assignment; nothing looks at sets
set_row(sets, block, taxon, states) ==
    [status |-> "ok",
     block |-> [t \in DOMAIN block \cup {taxon} |-> IF t = taxon THEN states ELSE block[t]]]

\* block[taxon]: the dict's own item access, KeyError for a taxon without row
get_row(block, taxon) ==
    IF taxon \in DOMAIN block
    THEN [status |-> "ok", value |-> block[taxon]]
    ELSE [status |-> "KeyError", value |-> <<>>]

\* what the model draws from: the states are 1..MaxElems, of which the last is in
\* no alphabet set
Taxa == {"t1", "t2"}
BlockAlphabets == {{1}, {1, 2}}
RowChoices == ListsUpTo(1..MaxElems, 2)

-----------------------------------------------------------------------------
(* Actions *)

NoCall == [op |-> "none"]

\* A call that changes neither heap nor alphabet ends the behaviour with its
\* record in `call`: every heap and alphabet is reached by the adds that grow the
\* alphabet, so the model continues from the state before such a call and no
\* reachable state is lost.
Idle == call.op = "none" \/ (call.op = "add" /\ call.before # alphabet)

\* self.add(DiscreteStateAlphabetElement(...)): the members of a new state are
\* states that exist already
AddNew ==
    /\ Idle
    /\ Len(heap) < MaxElems
    /\ \E args \in ElementArgs, member_states \in {{}} \cup {{l} : l \in AscLists(alphabet)} :
         LET state == Len(heap) + 1
             h == Append(heap, NewElementRecord(args, member_states))
             r == add(h, alphabet, state)
         IN  /\ heap' = h
             /\ alphabet' = r.contents
             /\ call' = [op |-> "add", state |-> state, before |-> alphabet,
                         status |-> r.status]
             /\ UNCHANGED <<evalVars, dnaVars, blockVars>>

\* self.add(state) of a state object the alphabet holds already
AddAgain ==
    /\ Idle
    /\ \E state \in alphabet :
        LET r == add(heap, alphabet, state)
        IN  /\ alphabet' = r.contents
            /\ call' = [op |-> "add", state |-> state, before |-> alphabet,
                        status |-> r.status]
            /\ UNCHANGED <<heap, evalVars, dnaVars, blockVars>>

GetStates ==
    /\ Idle
    /\ \E a \in GetStatesArgs :
      \E r \in get_states(heap, alphabet, a[1], a[2], a[3]) :
        /\ call' = [op |-> "get_states", elem_ids |-> a[1], symbols |-> a[2],
                    tokens |-> a[3], status |-> r.status, at |-> r.at, value |-> r.value]
        /\ UNCHANGED <<heap, alphabet, evalVars, dnaVars, blockVars>>

MatchState ==
    /\ Idle
    /\ \E a \in MatchStateArgs :
      \E r \in match_state(heap, alphabet, a[1], a[2], a[3]) :
        /\ call' = [op |-> "match_state", elem_ids |-> a[1], symbols |-> a[2],
                    tokens |-> a[3], status |-> r.status, at |-> r.at, value |-> r.value]
        /\ UNCHANGED <<heap, alphabet, evalVars, dnaVars, blockVars>>

\* a property read: fundamental_states, fundamental_ids, fundamental_symbols or
\* fundamental_tokens of a state of the alphabet
FundamentalQuery ==
    /\ Idle
    /\ \E self \in alphabet :
        \/ /\ call' = [op |-> "fundamental_states", self |-> self,
                       value |-> _get_fundamental_states(heap, self)]
           /\ UNCHANGED <<heap, alphabet, evalVars, dnaVars, blockVars>>
        \/ \E name \in {"fundamental_ids", "fundamental_symbols", "fundamental_tokens"} :
           /\ call' = [op |-> name, self |-> self, value |-> getattr(heap, self, name)]
           /\ UNCHANGED <<heap, alphabet, evalVars, dnaVars, blockVars>>

EvalIdle == stack = <<>>
DnaIdle == dna_pc = 0 /\ has_append = FALSE
BlockIdle == state_alphabet_sets = <<>> /\ characters = <<>> /\ rows = <<>>

Init ==
    /\ heap = <<>>
    /\ alphabet = {}
    /\ call = NoCall
    /\ EvalIdle /\ DnaIdle /\ BlockIdle

Next ==
    \/ AddNew
    \/ AddAgain
    \/ GetStates
    \/ MatchState
    \/ FundamentalQuery

Spec == Init /\ [][Next]_vars

-----------------------------------------------------------------------------
(* The construction of the DNA alphabet *)

DnaFailed == call.op = "__init__" /\ call.status # "ok"
DnaReady == call.op = "none" \/ (call.op = "__init__" /\ call.status = "ok")

DnaInit ==
    /\ DnaReady
    /\ dna_pc \in 1..Len(DnaRecipe)
    /\ \E r \in DnaInitLine(dna_pc, heap, alphabet, has_append) :
        /\ heap' = r.heap
        /\ alphabet' = r.contents
        /\ call' = [op |-> "__init__", line |-> dna_pc, status |-> r.status]
        /\ dna_pc' = IF r.status = "ok" THEN dna_pc + 1 ELSE dna_pc
    /\ UNCHANGED <<has_append, evalVars, blockVars>>

DnaMatchState ==
    /\ DnaReady
    /\ \E a \in DnaMatchArgs :
      \E r \in match_state(heap, alphabet, a[1], a[2], a[3]) :
        /\ call' = [op |-> "match_state", elem_ids |-> a[1], symbols |-> a[2],
                    tokens |-> a[3], status |-> r.status, at |-> r.at, value |-> r.value]
        /\ UNCHANGED <<heap, alphabet, evalVars, dnaVars, blockVars>>

InitDna ==
    /\ heap = <<>>
    /\ alphabet = {}
    /\ call = NoCall
    /\ dna_pc = 1
    /\ has_append \in BOOLEAN
    /\ EvalIdle /\ BlockIdle

NextDna ==
    \/ DnaInit
    \/ DnaMatchState

SpecDna == InitDna /\ [][NextDna]_vars

-----------------------------------------------------------------------------
(* The resolution of a state to its fundamental states, step by step *)

\* member_states is a plain attribute: it is given to the constructor or assigned
\* later, so the member graph of the states can be any graph, cycles included
MemberChoices == {{}} \cup {{l} : l \in AscLists(1..MaxElems)}

EvalHeaps ==
    {[i \in 1..MaxElems |->
        NewElementRecord(ElementArgList[((i - 1) % Len(ElementArgList)) + 1], m[i])] :
     m \in [1..MaxElems -> MemberChoices]}

Top == stack[Len(stack)]
Running == stack # <<>>

\* state._get_fundamental_states() is called on a state
EvalCall ==
    /\ stack = <<>> /\ call.op = "none"
    /\ \E self \in alphabet :
        /\ stack' = <<Frame(self)>>
        /\ call' = [op |-> "_get_fundamental_states", self |-> self, status |-> "running"]
    /\ UNCHANGED <<heap, alphabet, dnaVars, blockVars>>

\* the loop reaches a member and calls its _get_fundamental_states()
EvalEnter ==
    /\ Running
    /\ heap[Top.self].member_states # {}
    /\ Top.i <= Len(members_to_visit(heap, stack, Top.self))
    /\ Len(stack) < RecursionLimit
    /\ stack' = Append(stack, Frame(members_to_visit(heap, stack, Top.self)[Top.i]))
    /\ UNCHANGED <<heap, alphabet, call, dnaVars, blockVars>>

\* the same call when the stack is as deep as the interpreter allows: it raises
\* ("maximum recursion depth exceeded") and the whole resolution is abandoned
EvalOverflow ==
    /\ Running
    /\ heap[Top.self].member_states # {}
    /\ Top.i <= Len(members_to_visit(heap, stack, Top.self))
    /\ Len(stack) >= RecursionLimit
    /\ stack' = <<>>
    /\ call' = [call EXCEPT !.status = "RecursionError"]
    /\ UNCHANGED <<heap, alphabet, dnaVars, blockVars>>

\* return set([self]) (no member collection) or return states (the loop is over)
EvalReturn ==
    /\ Running
    /\ IF heap[Top.self].member_states = {}
       THEN TRUE
       ELSE Top.i > Len(members_to_visit(heap, stack, Top.self))
    /\ LET result == IF heap[Top.self].member_states = {} THEN {Top.self} ELSE Top.states
           n == Len(stack)
       IN  IF n = 1
           THEN /\ stack' = <<>>
                /\ call' = [op |-> "_get_fundamental_states", self |-> call.self,
                            status |-> "returned", value |-> result]
           ELSE /\ stack' = [k \in 1..(n - 1) |->
                               IF k = n - 1
                               THEN [stack[k] EXCEPT !.states = @ \cup result, !.i = @ + 1]
                               ELSE stack[k]]
                /\ UNCHANGED call
    /\ UNCHANGED <<heap, alphabet, dnaVars, blockVars>>

InitEval ==
    /\ heap \in EvalHeaps
    /\ alphabet = 1..MaxElems
    /\ call = NoCall
    /\ stack = <<>>
    /\ DnaIdle /\ BlockIdle

NextEval ==
    \/ EvalCall
    \/ EvalEnter
    \/ EvalOverflow
    \/ EvalReturn

\* the interpreter runs a call that has started to its end
SpecEval == InitEval /\ [][NextEval]_vars /\ WF_vars(NextEval)

-----------------------------------------------------------------------------
(* The character block *)

BlockReady == call.op # "get_row"

AddAlphabetSet ==
    /\ BlockReady
    /\ Len(state_alphabet_sets) < MaxAlphabetSets
    /\ \E a \in BlockAlphabets :
        /\ state_alphabet_sets' = add_alphabet_set(state_alphabet_sets, a)
        /\ call' = [op |-> "add_alphabet_set"]
    /\ UNCHANGED <<heap, alphabet, characters, rows, evalVars, dnaVars>>

AddColumn ==
    /\ BlockReady
    /\ Len(characters) < MaxColumns
    /\ \E a \in BlockAlphabets :
        /\ characters' = add_column(characters, a)
        /\ call' = [op |-> "add_column"]
    /\ UNCHANGED <<heap, alphabet, state_alphabet_sets, rows, evalVars, dnaVars>>

SetRow ==
    /\ BlockReady
    /\ \E taxon \in Taxa, states \in RowChoices :
        LET r == set_row(state_alphabet_sets, rows, taxon, states)
        IN  /\ rows' = r.block
            /\ call' = [op |-> "set_row", taxon |-> taxon, states |-> states,
                        status |-> r.status, kept |-> \A t \in DOMAIN rows \ {taxon} :
                                                        r.block[t] = rows[t]]
    /\ UNCHANGED <<heap, alphabet, state_alphabet_sets, characters, evalVars, dnaVars>>

GetRow ==
    /\ BlockReady
    /\ \E taxon \in Taxa :
        LET r == get_row(rows, taxon)
        IN  call' = [op |-> "get_row", taxon |-> taxon, status |-> r.status,
                     value |-> r.value]
    /\ UNCHANGED <<heap, alphabet, state_alphabet_sets, characters, rows, evalVars, dnaVars>>

InitBlock ==
    /\ heap = <<>>
    /\ alphabet = {}
    /\ call = NoCall
    /\ state_alphabet_sets = <<>>
    /\ characters = <<>>
    /\ rows = <<>>
    /\ EvalIdle /\ DnaIdle

NextBlock ==
    \/ AddAlphabetSet
    \/ AddColumn
    \/ SetRow
    \/ GetRow

SpecBlock == InitBlock /\ [][NextBlock]_vars

-----------------------------------------------------------------------------
(* What the claims speak of, stated without the operators above *)

Members(h, s) == IF h[s].member_states = {} THEN {} ELSE Range(TheOne(h[s].member_states))

RECURSIVE Closure(_, _, _)
Closure(h, S, n) ==
    IF n = 0 THEN S ELSE Closure(h, S \cup UNION {Members(h, x) : x \in S}, n - 1)

\* the states reachable from s through member_states, s included
Reachable(h, s) == Closure(h, {s}, Len(h))

\* the reachable states that have no member collection
Leaves(h, s) == {f \in Reachable(h, s) : h[f].member_states = {}}

NonEmpty(v) == v \notin {None, ""}

\* the fundamental id, symbol or token set of s, by selector name
FundamentalSet(h, s, selector) ==
    CASE selector = "elem_ids" -> {h[f].elem_id : f \in Leaves(h, s)}
      [] selector = "symbols" -> {h[f].symbol : f \in {g \in Leaves(h, s) : NonEmpty(h[g].symbol)}}
      [] selector = "tokens" -> {h[f].token : f \in {g \in Leaves(h, s) : NonEmpty(h[g].token)}}

Attribute(h, s, selector) ==
    CASE selector = "elem_ids" -> h[s].elem_id
      [] selector = "symbols" -> h[s].symbol
      [] selector = "tokens" -> h[s].token

IsLookup == call.op \in {"get_states", "match_state"}

\* the selectors the recorded call supplied, and the first of them in the order
\* ids, symbols, tokens
Supplied == {n \in {"elem_ids", "symbols", "tokens"} : call[n] # {}}
FirstSupplied ==
    IF call.elem_ids # {} THEN "elem_ids" ELSE IF call.symbols # {} THEN "symbols" ELSE "tokens"

\* the requested value set of a match_state argument
Requested(x) == {x.val[i] : i \in DOMAIN x.val}

\* the recorded match_state outcome is right for selector n
MatchedBy(n) ==
    LET V == Requested(TheOne(call[n]))
    IN  /\ call.status = "ok"
        /\ \A s \in call.value : s \in alphabet /\ FundamentalSet(heap, s, n) = V
        /\ call.value = {} <=> ~ \E s \in alphabet : FundamentalSet(heap, s, n) = V

\* the recorded get_states outcome is right for selector n
FetchedBy(n) ==
    LET values == TheOne(call[n])
        unmatched == {i \in DOMAIN values :
                        ~ \E s \in alphabet : Attribute(heap, s, n) = values[i]}
    IN  IF unmatched = {}
        THEN /\ call.status = "ok"
             /\ Len(call.value) = Len(values)
             /\ \A i \in DOMAIN values :
                    /\ call.value[i] \in alphabet
                    /\ Attribute(heap, call.value[i], n) = values[i]
        ELSE /\ call.status = "NotFound"
             /\ call.at \in unmatched /\ \A j \in unmatched : call.at <= j
             /\ call.value = <<>>

-----------------------------------------------------------------------------
(* Claims *)

\* C1: match_state with exactly one selector returns a state of the alphabet
\* whose fundamental id/symbol/token set equals the requested set V exactly, and
\* returns None, without failing, when no state has a fundamental set equal to V.
C1_MatchStateExact ==
    (call.op = "match_state" /\ Cardinality(Supplied) = 1) => MatchedBy(FirstSupplied)

\* C1 witness: a match was returned while another state of the alphabet has a
\* strictly larger fundamental set
C1_Witness ==
    /\ call.op = "match_state" /\ Cardinality(Supplied) = 1 /\ call.value # {}
    /\ \E t \in alphabet :
          LET V == Requested(TheOne(call[FirstSupplied]))
              F == FundamentalSet(heap, t, FirstSupplied)
          IN  V \subseteq F /\ V # F /\ V # {}

\* C2: get_states with one selector returns a list as long as the values, whose
\* i-th element is a state whose attribute equals the i-th value; if a value
\* matches no state the call fails with NotFound at the first such value and
\* returns nothing.
C2_GetStatesInOrder ==
    (call.op = "get_states" /\ Cardinality(Supplied) = 1) => FetchedBy(FirstSupplied)

\* C2 witness: the second of two values matched no state
C2_Witness ==
    /\ call.op = "get_states" /\ Cardinality(Supplied) = 1
    /\ call.status = "NotFound" /\ call.at = 2

\* C3 as stated: get_states and match_state fail with InvalidArgument whenever
\* the number of selectors supplied is not exactly one.
C3_Original ==
    (IsLookup /\ Cardinality(Supplied) # 1) => call.status = "InvalidArgument"

\* C3 amended: get_states and match_state fail with InvalidArgument when no
\* selector is supplied; when two or three are supplied the call does not fail
\* for that: it uses the first supplied of ids, symbols, tokens and ignores the
\* others.
C3_FirstSelectorWins ==
    IsLookup =>
        IF Supplied = {}
        THEN /\ call.status = "InvalidArgument"
             /\ call.op = "get_states" => call.value = <<>>
             /\ call.op = "match_state" => call.value = {}
        ELSE /\ call.status # "InvalidArgument"
             /\ call.op = "match_state" => MatchedBy(FirstSupplied)
             /\ call.op = "get_states" => FetchedBy(FirstSupplied)

\* C3 witness: a match_state call with several selectors returned a state
C3_Witness ==
    /\ call.op = "match_state" /\ Cardinality(Supplied) >= 2 /\ call.value # {}

\* C4 as stated: no two states of the alphabet share an identifier; add of a
\* state whose identifier is that of a state already present fails with
\* DuplicateKey and leaves the alphabet as it was.
C4_Original ==
    /\ \A s, t \in alphabet : heap[s].elem_id = heap[t].elem_id => s = t
    /\ (call.op = "add" /\ \E t \in call.before : heap[t].elem_id = heap[call.state].elem_id)
          => (call.status = "DuplicateKey" /\ alphabet = call.before)

\* C4 amended: add never fails; it leaves the alphabet with its prior contents
\* and the added state, whether or not the identifier of that state is that of a
\* state already present (so identifiers need not be unique), and adding a state
\* the alphabet already holds leaves the contents as they were.
C4_AddKeepsContents ==
    call.op = "add" =>
        /\ call.status = "ok"
        /\ alphabet = call.before \cup {call.state}
        /\ call.state \in call.before => alphabet = call.before

\* C4 witness: a state was added whose identifier is that of another state present
C4_Witness ==
    /\ call.op = "add"
    /\ \E t \in call.before : t # call.state /\ heap[t].elem_id = heap[call.state].elem_id

\* C5 as stated: fundamental_states(s) is {s} when s has no member states (the
\* collection empty or absent) and otherwise the union of the members'
\* fundamental states; a SINGLE state (no member states) resolves to itself; every
\* element of a result has no member states.
C5_Original ==
    call.op = "fundamental_states" =>
        LET s == call.self
        IN  /\ Members(heap, s) = {} => call.value = {s}
            /\ Members(heap, s) # {} =>
                  call.value = UNION {Leaves(heap, m) : m \in Members(heap, s)}
            /\ \A f \in call.value : Members(heap, f) = {}

\* C5 amended: fundamental_states(s) is {s} when the member collection of s is
\* absent (None); when it is present, even if empty, it is the union of the
\* members' fundamental states (the empty set for an empty collection); so a
\* SINGLE state with no member collection resolves to itself, and every element of
\* a result is a state with no member collection.
C5_FundamentalStates ==
    call.op = "fundamental_states" =>
        LET s == call.self
        IN  /\ call.value = Leaves(heap, s)
            /\ heap[s].member_states = {} => call.value = {s}
            /\ heap[s].member_states # {} =>
                  call.value = UNION {Leaves(heap, m) : m \in Members(heap, s)}
            /\ (heap[s].multistate = SINGLE_STATE /\ heap[s].member_states = {})
                  => call.value = {s}
            /\ \A f \in call.value : heap[f].member_states = {}

\* C5 witness: the state resolved has a member that itself has members
C5_Witness ==
    /\ call.op = "fundamental_states"
    /\ \E m \in Members(heap, call.self) : Members(heap, m) # {}
    /\ call.value # {}

\* C6: fundamental_ids is the set of identifiers of the fundamental states;
\* fundamental_symbols (fundamental_tokens) is the set of symbols (tokens) of the
\* fundamental states that have a non-empty one, and holds no empty or absent value.
C6_Projections ==
    LET F == Leaves(heap, call.self)
    IN  /\ call.op = "fundamental_ids" => call.value = {heap[f].elem_id : f \in F}
        /\ call.op = "fundamental_symbols" =>
              /\ call.value = {heap[f].symbol : f \in {g \in F : NonEmpty(heap[g].symbol)}}
              /\ None \notin call.value /\ "" \notin call.value
        /\ call.op = "fundamental_tokens" =>
              /\ call.value = {heap[f].token : f \in {g \in F : NonEmpty(heap[g].token)}}
              /\ None \notin call.value /\ "" \notin call.value

\* C6 witness: a symbol projection that dropped a fundamental state without symbol
C6_Witness ==
    /\ call.op = "fundamental_symbols" /\ call.value # {}
    /\ \E f \in Leaves(heap, call.self) : heap[f].symbol = None

SymbolsOf(S) == {heap[s].symbol : s \in S}

\* the state match_state(symbols=str) returns, when it can only return one
TheMatch(str) ==
    LET out == match_state(heap, alphabet, {}, kStr(str), {})
    IN  IF Cardinality(out) = 1 THEN SymbolsOf((TheOne(out)).value) ELSE {}

\* C7: constructing the DNA alphabet succeeds and yields the states A,C,G,T,-,?,
\* N,M,R,W,S,Y,K,V,H,D,B with size 16, every composite state inserted after all
\* its members, and match_state(symbols="AG") is R, "ACGT-" is ?, {A,C,G,T} is N
\* and {A,C} is M.
C7_Original ==
    /\ ~ DnaFailed
    /\ dna_pc = DnaDone =>
          /\ SymbolsOf(alphabet) = {"A", "C", "G", "T", "-", "?", "N", "M", "R", "W",
                                    "S", "Y", "K", "V", "H", "D", "B"}
          /\ Cardinality(alphabet) = 16
          /\ \A s \in alphabet : \A m \in Members(heap, s) : m \in alphabet /\ m < s
          /\ TheMatch(<<"A", "G">>) = {"R"}
          /\ TheMatch(<<"A", "C", "G", "T", "-">>) = {"?"}
          /\ TheMatch(<<"A", "C", "G", "T">>) = {"N"}
          /\ TheMatch(<<"A", "C">>) = {"M"}

CycleFrom(h, s) ==
    \E x \in Reachable(h, s) : x \in Closure(h, Members(h, x), Len(h))

Resolving == call.op = "_get_fundamental_states" /\ call.status = "running"
Returned == call.op = "_get_fundamental_states" /\ call.status = "returned"
Abandoned == call.op = "_get_fundamental_states" /\ call.status = "RecursionError"

\* C9: on an acyclic member graph the resolution of s terminates with a result;
\* there is no cycle guard, so with a cycle reachable from s the recursion goes on
\* until the interpreter stops it and no result is ever returned.
\* (A resolution ends one way or the other, and which way is fixed by the member
\* graph, which does not change while it runs.)
C9_TerminatesIffAcyclic ==
    /\ Resolving ~> (Returned \/ Abandoned)
    /\ [](Returned => ~ CycleFrom(heap, call.self))
    /\ [](Abandoned => CycleFrom(heap, call.self))

\* C9 witness: a resolution was abandoned at the recursion limit
C9_Witness == Abandoned /\ CycleFrom(heap, call.self)

\* C8 as stated: every state in a row belongs to a registered alphabet set;
\* set_row fails with InvalidArgument, leaving the rows as they were, when a
\* supplied state is in no registered set, and otherwise stores the row.
C8_Original ==
    /\ \A taxon \in DOMAIN rows : \A i \in 1..Len(rows[taxon]) :
          rows[taxon][i] \in UNION Range(state_alphabet_sets)
    /\ call.op = "set_row" =>
          IF \E i \in 1..Len(call.states) : call.states[i] \notin UNION Range(state_alphabet_sets)
          THEN call.status = "InvalidArgument"
          ELSE call.status = "ok" /\ rows[call.taxon] = call.states

\* C8 amended: set_row makes no check against the registered alphabet sets: it
\* never fails, it stores the supplied states whether or not they belong to a
\* registered set and leaves the other rows alone, and get_row(taxon) returns the
\* states stored; so a row can hold a state of no registered alphabet set.
C8_SetRowStoresAnyRow ==
    /\ call.op = "set_row" =>
          /\ call.status = "ok"
          /\ call.taxon \in DOMAIN rows /\ rows[call.taxon] = call.states
          /\ call.kept
    /\ (call.op = "get_row" /\ call.taxon \in DOMAIN rows) =>
          call.status = "ok" /\ call.value = rows[call.taxon]

\* C8 witness: with an alphabet set registered, a row was stored that holds a
\* state of no registered set
C8_Witness ==
    /\ call.op = "set_row" /\ call.status = "ok"
    /\ state_alphabet_sets # <<>>
    /\ \E i \in 1..Len(call.states) : call.states[i] \notin UNION Range(state_alphabet_sets)
    /\ rows[call.taxon] = call.states

====
